---- MODULE Spec2Model ----
(***************************************************************************)
(* A model of python-domino-environments: the revision archive parser      *)
(* (domino_environments/utils.py) and the EnvironmentManager               *)
(* (domino_environments/_environments.py).                                 *)
(*                                                                         *)
(* Text is modelled as a sequence of one-character strings, so that        *)
(* str.strip, str.split, str.splitlines, str.join and slicing are computed *)
(* the way Python computes them.                                           *)
(***************************************************************************)
EXTENDS Integers, Sequences, FiniteSets, TLC

VARIABLES
    file_obj,       \* the tar archive handed to parse_revision_tar
    parsed,         \* what parse_revision_tar did with it
    environ,        \* os.environ: the three variables the constructor reads
    manager,        \* "none", "constructed", or "failed" (__init__ raised)
    request_manager,        \* EnvironmentManager.request_manager
    default_environment,    \* EnvironmentManager._default_environment
    default_details,        \* EnvironmentManager._default_details
    routes,                 \* EnvironmentManager._routes
    version,                \* EnvironmentManager._version
    call,           \* the last call of a manager operation, and what it did
    responses       \* what the remote answered to that call's requests

parser_vars == <<file_obj, parsed>>
cache_vars == <<default_environment, default_details>>
manager_vars ==
    <<environ, manager, request_manager, routes, version, cache_vars>>
call_vars == <<call, responses>>
vars == <<parser_vars, manager_vars, call_vars>>

(***************************************************************************)
(* Bounds of the model.                                                    *)
(***************************************************************************)
MaxMembers == 2     \* members of an archive
MaxRefLen == 2      \* characters of an enumerated image reference
MaxLines == 6       \* lines of an enumerated Dockerfile
MaxKwargs == 2      \* keyword arguments a create_revision call overrides
MaxEnvVars == 3     \* pairs of an enumerated environment_variables argument

(***************************************************************************)
(* Python built-ins, on sequences of characters.                           *)
(***************************************************************************)
None == "None"

Max(a, b) == IF a >= b THEN a ELSE b
Min(a, b) == IF a <= b THEN a ELSE b

\* seq[start:stop] of Python, for any integers start and stop.
PySlice(seq, start, stop) ==
    LET n == Len(seq)
        lo == IF start < 0 THEN Max(n + start, 0) ELSE Min(start, n)
        hi == IF stop < 0 THEN Max(n + stop, 0) ELSE Min(stop, n)
    IN  IF hi <= lo THEN <<>> ELSE SubSeq(seq, lo + 1, hi)

\* str.lstrip(chars), str.rstrip(chars), str.strip(chars): chars is a SET of
\* characters, every leading and trailing character in it is removed.
RECURSIVE LStrip(_, _)
LStrip(s, chars) ==
    IF s # <<>> /\ Head(s) \in chars THEN LStrip(Tail(s), chars) ELSE s

RECURSIVE RStrip(_, _)
RStrip(s, chars) ==
    IF s # <<>> /\ s[Len(s)] \in chars
    THEN RStrip(SubSeq(s, 1, Len(s) - 1), chars)
    ELSE s

PyStrip(s, chars) == RStrip(LStrip(s, chars), chars)

\* str.split(sep) for a one-character separator: always at least one segment.
RECURSIVE SplitAcc(_, _, _, _)
SplitAcc(s, sep, cur, acc) ==
    IF s = <<>> THEN Append(acc, cur)
    ELSE IF Head(s) = sep THEN SplitAcc(Tail(s), sep, <<>>, Append(acc, cur))
    ELSE SplitAcc(Tail(s), sep, Append(cur, Head(s)), acc)

PySplit(s, sep) == SplitAcc(s, sep, <<>>, <<>>)

\* The line boundaries of str.splitlines that the modelled alphabet holds.
LineBreaks == {"\n", "\r", "\f"}

\* str.splitlines(): a line ends at each line boundary ("\r\n" is one
\* boundary); the boundaries are dropped; text after the last boundary is a
\* line only when it is not empty.
RECURSIVE SplitLinesAcc(_, _, _)
SplitLinesAcc(s, cur, acc) ==
    IF s = <<>> THEN (IF cur = <<>> THEN acc ELSE Append(acc, cur))
    ELSE IF Head(s) = "\r" /\ Len(s) >= 2 /\ s[2] = "\n"
         THEN SplitLinesAcc(Tail(Tail(s)), <<>>, Append(acc, cur))
    ELSE IF Head(s) \in LineBreaks
         THEN SplitLinesAcc(Tail(s), <<>>, Append(acc, cur))
    ELSE SplitLinesAcc(Tail(s), Append(cur, Head(s)), acc)

PySplitLines(s) == SplitLinesAcc(s, <<>>, <<>>)

\* separator.join(list)
RECURSIVE PyJoin(_, _)
PyJoin(separator, list) ==
    IF list = <<>> THEN <<>>
    ELSE IF Len(list) = 1 THEN list[1]
    ELSE list[1] \o separator \o PyJoin(separator, Tail(list))

\* bytes.decode("utf-8"): the modelled bytes are ASCII, which decode to
\* themselves, and one byte that is not valid UTF-8, on which decode raises.
InvalidByte == "xFF"

DecodeRaises(bytes) == \E i \in 1..Len(bytes) : bytes[i] = InvalidByte

(***************************************************************************)
(* domino_environments/utils.py                                            *)
(***************************************************************************)
\* What a call did: it returned value, or it raised the exception value.
Returned(v) == [raised |-> FALSE, value |-> v]
Raised(e) == [raised |-> TRUE, value |-> e]

EmptyDict == [k \in {} |-> None]

\* Python values, with their type: None, a str, a bool, a list (of str, or of
\* pairs), a dict (its items in insertion order).
PyNone == [type |-> "NoneType", val |-> <<>>]
Text(s) == [type |-> "str", val |-> s]
Lines(l) == [type |-> "list", val |-> l]
Dict(items) == [type |-> "dict", val |-> items]
PyTrue == [type |-> "bool", val |-> <<"T", "r", "u", "e">>]
PyFalse == [type |-> "bool", val |-> <<"F", "a", "l", "s", "e">>]

\* bool(v): None, False, "", [] and {} are falsy.
Truthy(v) ==
    IF v.type = "NoneType" THEN FALSE
    ELSE IF v.type = "bool" THEN v = PyTrue
    ELSE v.val # <<>>

\* a or b
PyOr(a, b) == IF Truthy(a) THEN a ELSE b

\* A slip: the list passed on as it is.
list_to_string_unjoined(val) == val

\* list_to_string(val, separator="\n"): only a list is joined.
list_to_string(val) ==
    IF val.type = "list" THEN Text(PyJoin(<<"\n">>, val.val)) ELSE val

\* A file object: an io.BufferedReader over bytes, or None.
Reader(bytes) == [reader |-> TRUE, bytes |-> bytes]
NoFile == [reader |-> FALSE, bytes |-> <<>>]

\* A slip: the text split at "\n" only, as str.split("\n") does.
parse_plain_text_split(file) ==
    IF file.reader
    THEN IF DecodeRaises(file.bytes) THEN Raised("UnicodeDecodeError")
         ELSE Returned(PySplit(file.bytes, "\n"))
    ELSE Returned(<<>>)

\* parse_plain_text(file_obj)
parse_plain_text(file) ==
    IF file.reader
    THEN IF DecodeRaises(file.bytes) THEN Raised("UnicodeDecodeError")
         ELSE Returned(PySplitLines(file.bytes))
    ELSE Returned(<<>>)

\* The first argument of lines[0].strip("FROM ").
FromChars == {"F", "R", "O", "M", " "}

\* lines[0].strip("FROM ")
base_image_of(line) == PyStrip(line, FromChars)

\* A slip: one trailing line dropped instead of two.
instructions_of_drop_one(lines) == PySlice(lines, 2, -1)

\* lines[2:-2]
instructions_of(lines) == PySlice(lines, 2, -2)

parse_dockerfile(file) ==
    IF file.reader
    THEN LET lines == parse_plain_text(file)
         IN  IF lines.raised THEN lines
             ELSE IF lines.value = <<>> THEN Raised("IndexError")
             ELSE Returned([base_image |-> base_image_of(lines.value[1]),
                            instructions |-> instructions_of(lines.value)])
    ELSE Returned(EmptyDict)

Dockerfile == <<"D", "o", "c", "k", "e", "r", "f", "i", "l", "e">>
DotSh == <<".", "s", "h">>
Script == <<"S", "c", "r", "i", "p", "t">>
preSetupScript == <<"p", "r", "e", "S", "e", "t", "u", "p">> \o Script \o DotSh
postSetupScript == <<"p", "o", "s", "t", "S", "e", "t", "u", "p">> \o Script \o DotSh
preRunScript == <<"p", "r", "e", "R", "u", "n">> \o Script \o DotSh
postRunScript == <<"p", "o", "s", "t", "R", "u", "n">> \o Script \o DotSh

ScriptNames == {preSetupScript, postSetupScript, preRunScript, postRunScript}

\* The dispatch table: file name -> parser.
REVISION_PARSERS ==
    [n \in {Dockerfile} \cup ScriptNames |->
        IF n = Dockerfile THEN "parse_dockerfile" ELSE "parse_plain_text"]

Apply(parse_func, file) ==
    IF parse_func = "parse_dockerfile" THEN parse_dockerfile(file)
    ELSE parse_plain_text(file)

\* A slip: the member's whole path looked up in the dispatch table.
file_name_whole(name) == name

\* member.name.split("/")[-1]
file_name_of(name) == LET parts == PySplit(name, "/") IN parts[Len(parts)]

\* TarFile.extractfile(name): the LAST member of that name; the bytes of a
\* regular file, None for a directory.
extractfile(tar, name) ==
    LET last == CHOOSE i \in 1..Len(tar) :
                    /\ tar[i].name = name
                    /\ \A j \in (i + 1)..Len(tar) : tar[j].name # name
    IN  IF tar[last].isreg THEN Reader(tar[last].data) ELSE NoFile

\* The loop of parse_revision_tar over tar.getmembers(), from member i on,
\* with the dict built so far.
RECURSIVE parse_members(_, _, _)
parse_members(tar, i, content) ==
    IF i > Len(tar) THEN Returned(content)
    ELSE LET file_name == file_name_of(tar[i].name)
         IN  IF file_name \in DOMAIN REVISION_PARSERS
             THEN LET r == Apply(REVISION_PARSERS[file_name],
                                 extractfile(tar, tar[i].name))
                  IN  IF r.raised THEN r
                      ELSE parse_members(tar, i + 1,
                              [k \in DOMAIN content \cup {file_name} |->
                                  IF k = file_name THEN r.value ELSE content[k]])
             ELSE parse_members(tar, i + 1, content)

parse_revision_tar(tar) == parse_members(tar, 1, EmptyDict)

(***************************************************************************)
(* domino_environments/_environments.py                                    *)
(***************************************************************************)
\* class ImageType, class ClusterType
CUSTOM == <<"C", "u", "s", "t", "o", "m", "I", "m", "a", "g", "e">>
DEFAULT == <<"D", "e", "f", "a", "u", "l", "t", "I", "m", "a", "g", "e">>
SPARK == <<"S", "p", "a", "r", "k">>

\* d[key] of a dict given as its items: the value, or KeyError.
HasKey(d, key) == \E i \in 1..Len(d.val) : d.val[i][1] = key
DictGet(d, key) == d.val[CHOOSE i \in 1..Len(d.val) : d.val[i][1] = key][2]

IdKey == Text(<<"i", "d">>)

\* class Environment: the fields of its data the manager reads. A field
\* the data lacks reads as None.
EnvironmentData(id, selectedRevision, latestRevision) ==
    [id |-> id, selectedRevision |-> selectedRevision,
     latestRevision |-> latestRevision]
Environment(id, selectedRevision) ==
    EnvironmentData(id, selectedRevision, PyNone)

RevisionData(id) == Dict(<< <<IdKey, Text(id)>> >>)

\* An HTTP request, by its route and the route's arguments; a response, or
\* the exception the request manager raised instead.
Get(route, args) ==
    [method |-> "GET", route |-> route, args |-> args, data |-> EmptyDict]
Post(route, args, data) ==
    [method |-> "POST", route |-> route, args |-> args, data |-> data]
Response(status_code) == [raised |-> FALSE, status_code |-> status_code]
RequestException == [raised |-> TRUE, status_code |-> 0]

\* A slip: the argument tested for presence, "is None", instead of truth.
base_environment_revision_id_of_not_none(args, denv) ==
    IF args.base_environment_revision_id.type = "NoneType"
    THEN IF denv.selectedRevision.type # "dict" THEN Raised("TypeError")
         ELSE IF ~HasKey(denv.selectedRevision, IdKey) THEN Raised("KeyError")
         ELSE Returned(DictGet(denv.selectedRevision, IdKey))
    ELSE Returned(args.base_environment_revision_id)

\* self._default_environment.active_revision["id"], when no id is passed
base_environment_revision_id_of(args, denv) ==
    IF ~Truthy(args.base_environment_revision_id)
    THEN IF denv.selectedRevision.type # "dict" THEN Raised("TypeError")
         ELSE IF ~HasKey(denv.selectedRevision, IdKey) THEN Raised("KeyError")
         ELSE Returned(DictGet(denv.selectedRevision, IdKey))
    ELSE Returned(args.base_environment_revision_id)

\* self._default_details["Dockerfile"]["base_image"], when no image is passed
base_default_environment_image_of(args, ddetails) ==
    IF ~Truthy(args.base_default_environment_image)
    THEN IF Dockerfile \notin DOMAIN ddetails THEN Raised("KeyError")
         ELSE IF "base_image" \notin DOMAIN ddetails[Dockerfile]
              THEN Raised("KeyError")
         ELSE Returned(Text(ddetails[Dockerfile].base_image))
    ELSE Returned(args.base_default_environment_image)

\* A slip: the run scripts written under each other's key.
fixed_fields_swapped(args, rev, img) ==
    [k \in {"base.imageType", "base.dockerImage",
            "base.baseEnvironmentRevisionId", "base.defaultEnvironmentImage",
            "dockerfileInstructions", "properties", "preRunScript",
            "postRunScript", "preSetupScript", "postSetupScript",
            "dockerArguments", "summary"} |->
        CASE k = "base.imageType" -> args.image_type
          [] k = "base.dockerImage" -> args.docker_image
          [] k = "base.baseEnvironmentRevisionId" -> rev
          [] k = "base.defaultEnvironmentImage" -> img
          [] k = "dockerfileInstructions" -> list_to_string(args.dockerfile_instructions)
          [] k = "properties" -> list_to_string(args.workspace_tools)
          [] k = "preRunScript" -> list_to_string(args.post_run_script)
          [] k = "postRunScript" -> list_to_string(args.pre_run_script)
          [] k = "preSetupScript" -> list_to_string(args.pre_setup_script)
          [] k = "postSetupScript" -> list_to_string(args.post_setup_script)
          [] k = "dockerArguments" -> list_to_string(args.docker_arguments)
          [] k = "summary" -> args.summary]

\* The dict literal form_payload = {...}, after the seven list_to_string calls.
fixed_fields(args, rev, img) ==
    LET dockerfile_instructions == list_to_string(args.dockerfile_instructions)
        workspace_tools == list_to_string(args.workspace_tools)
        pre_run_script == list_to_string(args.pre_run_script)
        post_run_script == list_to_string(args.post_run_script)
        pre_setup_script == list_to_string(args.pre_setup_script)
        post_setup_script == list_to_string(args.post_setup_script)
        docker_arguments == list_to_string(args.docker_arguments)
    IN  ("base.imageType" :> args.image_type)
        @@ ("base.dockerImage" :> args.docker_image)
        @@ ("base.baseEnvironmentRevisionId" :> rev)
        @@ ("base.defaultEnvironmentImage" :> img)
        @@ ("dockerfileInstructions" :> dockerfile_instructions)
        @@ ("properties" :> workspace_tools)
        @@ ("preRunScript" :> pre_run_script)
        @@ ("postRunScript" :> post_run_script)
        @@ ("preSetupScript" :> pre_setup_script)
        @@ ("postSetupScript" :> post_setup_script)
        @@ ("dockerArguments" :> docker_arguments)
        @@ ("summary" :> args.summary)

\* form_payload[key] = value
SetItem(form_payload, key, value) == (key :> value) @@ form_payload

\* f"buildEnvironmentVariables[{idx}].name", ...].value"
EnvNameKey(idx) == "buildEnvironmentVariables[" \o ToString(idx) \o "].name"
EnvValueKey(idx) == "buildEnvironmentVariables[" \o ToString(idx) \o "].value"

\* for idx, (key, val) in enumerate(environment_variables), from idx on
RECURSIVE set_env_vars(_, _, _)
set_env_vars(form_payload, pairs, idx) ==
    IF idx >= Len(pairs) THEN form_payload
    ELSE set_env_vars(
            SetItem(SetItem(form_payload, EnvNameKey(idx), pairs[idx + 1][1]),
                    EnvValueKey(idx), pairs[idx + 1][2]),
            pairs, idx + 1)

\* A slip: the index counted from 1.
RECURSIVE set_env_vars_from_one(_, _, _)
set_env_vars_from_one(form_payload, pairs, idx) ==
    IF idx >= Len(pairs) THEN form_payload
    ELSE set_env_vars_from_one(
            SetItem(SetItem(form_payload, EnvNameKey(idx + 1), pairs[idx + 1][1]),
                    EnvValueKey(idx + 1), pairs[idx + 1][2]),
            pairs, idx + 1)

env_var_fields_from_one(form_payload, environment_variables) ==
    IF Truthy(environment_variables)
    THEN set_env_vars_from_one(form_payload, environment_variables.val, 0)
    ELSE form_payload

\* if environment_variables: ...; a dict is first turned into the list of
\* its items, which keeps their order.
env_var_fields(form_payload, environment_variables) ==
    IF Truthy(environment_variables)
    THEN LET items == IF environment_variables.type = "dict"
                      THEN Lines(environment_variables.val)
                      ELSE environment_variables
         IN  set_env_vars(form_payload, items.val, 0)
    ELSE form_payload

\* A slip: the flags tested for presence, "is not None", instead of truth.
optional_fields_not_none(form_payload, args) ==
    LET p1 == IF args.force_rebuild.type # "NoneType"
              THEN SetItem(form_payload, "noCache", PyTrue) ELSE form_payload
        p2 == IF args.should_use_vpn.type # "NoneType"
              THEN SetItem(p1, "shouldUseVPN", Text(<<"o", "n">>)) ELSE p1
    IN  IF args.cluster_types.type # "NoneType"
        THEN SetItem(p2, "clusterTypes[]", args.cluster_types) ELSE p2

\* if force_rebuild: ...; if should_use_vpn: ...; if cluster_types: ...
optional_fields(form_payload, args) ==
    LET p1 == IF Truthy(args.force_rebuild)
              THEN SetItem(form_payload, "noCache", PyTrue) ELSE form_payload
        p2 == IF Truthy(args.should_use_vpn)
              THEN SetItem(p1, "shouldUseVPN", Text(<<"o", "n">>)) ELSE p1
    IN  IF Truthy(args.cluster_types)
        THEN SetItem(p2, "clusterTypes[]", args.cluster_types) ELSE p2

\* The form payload of create_revision, given the two base values.
form_payload_of(args, rev, img) ==
    optional_fields(
        env_var_fields(fixed_fields(args, rev, img), args.environment_variables),
        args)

\* create_revision: the requests it issues and what it returns or raises,
\* when the request manager answers http.
create_revision(args, denv, ddetails, http) ==
    LET rev == base_environment_revision_id_of(args, denv)
        img == base_default_environment_image_of(args, ddetails)
    IN  IF rev.raised THEN [requests |-> <<>>, result |-> rev]
        ELSE IF img.raised THEN [requests |-> <<>>, result |-> img]
        ELSE [requests |->
                 <<Post("revision_create", <<args.environment.id>>,
                        form_payload_of(args, rev.value, img.value))>>,
              result |-> IF http.raised THEN Raised("RequestException")
                         ELSE Returned(http)]

\* The record of a call: the operation, its arguments, the HTTP requests it
\* issued in order, and whether it raised or what it returned.
NoCall == [op |-> "none", args |-> EmptyDict, requests |-> <<>>,
           raised |-> FALSE, value |-> None]
CallOf(op, args, did) ==
    [op |-> op, args |-> args, requests |-> did.requests,
     raised |-> did.result.raised, value |-> did.result.value]

\* _HttpRequestManager(auth), by the auth class and what it was given.
RequestManager(auth, credential) == [auth |-> auth, credential |-> credential]
NoRequestManager == RequestManager("none", PyNone)

\* _EnvironmentRoutes(host), by its host; clean_host_url(host) is the
\* scheme and network location of the URL it is given.
clean_host_url(host_url) == [type |-> "url", val |-> host_url.val]
EnvironmentRoutes(host) == [host |-> host]
NoRoutes == EnvironmentRoutes(PyNone)

\* self._version before the deployment's version is fetched.
NoVersion == "unset"

EnvNames == {"DOMINO_API_HOST", "DOMINO_USER_API_KEY", "DOMINO_TOKEN_FILE"}

\* No manager has been constructed.
NoManager ==
    /\ environ = [n \in EnvNames |-> PyNone]
    /\ manager = "none"
    /\ request_manager = NoRequestManager
    /\ default_environment = Environment(PyNone, PyNone)
    /\ default_details = EmptyDict
    /\ routes = NoRoutes
    /\ version = NoVersion
    /\ call = NoCall
    /\ responses = <<>>

\* The answers a call received: one for each request it issued, in order;
\* a request issued again is answered as it was before.
Received(did, answers) ==
    [i \in 1..Len(did.requests) |-> answers[Min(i, Len(answers))]]

CreateRevision(args, http) ==
    /\ manager = "constructed"
    /\ LET did == create_revision(args, default_environment,
                                  default_details, http)
       IN  /\ call' = CallOf("create_revision", args, did)
           /\ responses' = Received(did, <<http>>)
    /\ UNCHANGED <<parser_vars, manager_vars>>

(***************************************************************************)
(* The archives the parser is run on.                                      *)
(***************************************************************************)
FROM == <<"F", "R", "O", "M", " ">>
NL == <<"\n">>

\* Image references: every string of 1..MaxRefLen characters of RefChars,
\* and the reference of the specification's example.
RefChars == {"u", "M"}

RECURSIVE StringsOf(_, _)
StringsOf(chars, n) ==
    IF n = 0 THEN {<<>>}
    ELSE LET shorter == StringsOf(chars, n - 1)
         IN  shorter \cup {Append(s, c) : s \in shorter, c \in chars}

Ubuntu == <<"u", "b", "u", "n", "t", "u", ":", "1", "8", ".", "0", "4">>
Refs == (StringsOf(RefChars, MaxRefLen) \ {<<>>}) \cup {Ubuntu}

\* The lines after the first of an enumerated Dockerfile: line i is the
\* one-character line LineChars[i].
LineChars == <<"a", "b", "c", "d", "e", "f", "g", "h", "i", "j">>
BodyLines(n) == [i \in 1..n |-> <<LineChars[i]>>]

RunFoo == <<"R", "U", "N", " ", "f", "o", "o">>
RunBar == <<"R", "U", "N", " ", "b", "a", "r">>
Wrapper == <<"#">>

DockerfileTexts ==
    \* 'FROM ' and a reference, then five lines
    {PyJoin(NL, <<FROM \o r>> \o BodyLines(5)) : r \in Refs}
    \* n lines, n = 0..MaxLines
    \cup {PyJoin(NL, SubSeq(<<FROM \o <<"u">> >> \o BodyLines(MaxLines), 1, n)) :
            n \in 0..MaxLines}
    \* the example of the specification, and the same with a final newline
    \cup {PyJoin(NL, <<FROM \o Ubuntu, Wrapper, RunFoo, RunBar, Wrapper, Wrapper>>),
          PyJoin(NL, <<FROM \o Ubuntu, Wrapper, RunFoo, RunBar, Wrapper, Wrapper>>) \o NL}
    \* no directive on the first line; bytes that are not UTF-8
    \cup {PyJoin(NL, <<<<"u">>>> \o BodyLines(4)), <<"u", InvalidByte>>}

EchoA == <<"e", "c", "h", "o", " ", "a">>
EchoB == <<"e", "c", "h", "o", " ", "b">>

ScriptTexts ==
    {<<>>, NL, EchoA \o NL \o EchoB \o NL, EchoA \o NL \o EchoB,
     <<"a", "\r", "\n", "b", "\r", "c", "\f", "\n", "\n", "d">>,
     <<InvalidByte>>}

File(name, data) == [name |-> name, isreg |-> TRUE, data |-> data]
Dir(name) == [name |-> name, isreg |-> FALSE, data |-> <<>>]
In(dir, name) == dir \o <<"/">> \o name

Members ==
    {File(Dockerfile, t) : t \in DockerfileTexts}
    \cup {File(In(<<"r">>, Dockerfile), PyJoin(NL, <<FROM \o <<"M">> >> \o BodyLines(5))),
          Dir(Dockerfile)}
    \cup {File(preRunScript, t) : t \in ScriptTexts}
    \cup {File(n, EchoA \o NL \o EchoB \o NL) : n \in ScriptNames}
    \cup {File(In(<<"r">>, postRunScript), EchoB),
          File(<<"R", "E", "A", "D", "M", "E">>, EchoA),
          File(In(Dockerfile, <<"x">>), EchoA),
          File(Dockerfile \o <<".", "b">>, EchoA),
          Dir(<<"r">>)}

RECURSIVE SeqsUpTo(_, _)
SeqsUpTo(S, n) ==
    IF n = 0 THEN {<<>>}
    ELSE LET shorter == SeqsUpTo(S, n - 1)
         IN  shorter \cup {Append(s, x) : s \in shorter, x \in S}

Archives == SeqsUpTo(Members, MaxMembers)

(***************************************************************************)
(* The parser as a state machine: an archive arrives, parse_revision_tar   *)
(* is called on it.                                                        *)
(***************************************************************************)
NotCalled == [called |-> FALSE, raised |-> FALSE, value |-> EmptyDict]
Called(r) == [called |-> TRUE, raised |-> r.raised, value |-> r.value]

InitParse ==
    /\ file_obj \in Archives
    /\ parsed = NotCalled
    /\ NoManager

ParseRevisionTar ==
    /\ ~parsed.called
    /\ parsed' = Called(parse_revision_tar(file_obj))
    /\ UNCHANGED <<file_obj, manager_vars, call_vars>>

NextParse == ParseRevisionTar

SpecParse == InitParse /\ [][NextParse]_vars

(***************************************************************************)
(* Claims about the archive parser (checked under SpecParse).              *)
(***************************************************************************)
\* The final '/'-separated segment of a path, by position.
Basename(name) ==
    LET slashes == {i \in 1..Len(name) : name[i] = "/"}
        last == IF slashes = {} THEN 0
                ELSE CHOOSE i \in slashes : \A j \in slashes : j <= i
    IN  SubSeq(name, last + 1, Len(name))

DispatchNames ==
    {Dockerfile, preSetupScript, postSetupScript, preRunScript, postRunScript}

HasEntry(tar, k) == \E i \in 1..Len(tar) : Basename(tar[i].name) = k

\* The entry a key of the result is parsed from: the last one of that basename.
EntryOf(tar, k) ==
    tar[CHOOSE i \in 1..Len(tar) :
            /\ Basename(tar[i].name) = k
            /\ \A j \in (i + 1)..Len(tar) : Basename(tar[j].name) # k]

ParsedOk == parsed.called /\ ~parsed.raised

HasPrefix(s, prefix) ==
    Len(s) >= Len(prefix) /\ SubSeq(s, 1, Len(prefix)) = prefix

\* The Dockerfile entry, when the result has one parsed from a regular file.
DockerfileParsed ==
    /\ ParsedOk
    /\ HasEntry(file_obj, Dockerfile)
    /\ EntryOf(file_obj, Dockerfile).isreg

DockerfileLines == PySplitLines(EntryOf(file_obj, Dockerfile).data)

ExampleDockerfile ==
    PyJoin(NL, <<FROM \o Ubuntu, Wrapper, RunFoo, RunBar, Wrapper, Wrapper>>)

\* C1: whenever the Dockerfile entry's first line is 'FROM ' followed by a
\* non-empty reference R, the parsed base_image is exactly R.
C1_BaseImageIsReference ==
    (/\ DockerfileParsed
     /\ HasPrefix(DockerfileLines[1], FROM)
     /\ Len(DockerfileLines[1]) > Len(FROM))
    => parsed.value[Dockerfile].base_image
          = SubSeq(DockerfileLines[1], Len(FROM) + 1, Len(DockerfileLines[1]))

\* C2: the instructions of a Dockerfile entry of n >= 1 lines are its lines
\* 3..n-2 in order (none when n <= 4); the six-line example yields
\* [RUN foo, RUN bar].
C2_InstructionsAreMiddleLines ==
    DockerfileParsed =>
        LET lines == DockerfileLines
            n == Len(lines)
            ins == parsed.value[Dockerfile].instructions
        IN  /\ n >= 1
            /\ Len(ins) = (IF n <= 4 THEN 0 ELSE n - 4)
            /\ \A i \in 1..Len(ins) : ins[i] = lines[i + 2]
            /\ (EntryOf(file_obj, Dockerfile).data = ExampleDockerfile
                  => ins = <<RunFoo, RunBar>>)

C2_Witness ==
    /\ DockerfileParsed
    /\ EntryOf(file_obj, Dockerfile).data = ExampleDockerfile
    /\ parsed.value[Dockerfile].instructions = <<RunFoo, RunBar>>

\* C3: the keys of the returned mapping are the basenames of the archive's
\* entries that are dispatch-table names; an archive without a recognized
\* entry yields the empty mapping and no error.
C3_KeysAreRecognizedBasenames ==
    /\ ParsedOk =>
          DOMAIN parsed.value
             = {Basename(file_obj[i].name) : i \in 1..Len(file_obj)}
                 \cap DispatchNames
    /\ (parsed.called /\ \A k \in DispatchNames : ~HasEntry(file_obj, k))
          => ~parsed.raised /\ parsed.value = EmptyDict

C3_Witness ==
    /\ ParsedOk
    /\ \E i \in 1..Len(file_obj) : Basename(file_obj[i].name) \notin DispatchNames
    /\ \E i \in 1..Len(file_obj) :
          /\ file_obj[i].name # Basename(file_obj[i].name)
          /\ Basename(file_obj[i].name) \in DOMAIN parsed.value
    /\ \E k \in DispatchNames : k \notin DOMAIN parsed.value

C3_WitnessEmpty ==
    /\ ParsedOk
    /\ file_obj # <<>>
    /\ parsed.value = EmptyDict

\* A text is exactly these lines, each followed by one line boundary, the
\* last one possibly without it.
LineEnds == {<<"\n">>, <<"\r">>, <<"\r", "\n">>, <<"\f">>}

RECURSIVE IsLinesOf(_, _)
IsLinesOf(lines, text) ==
    IF lines = <<>> THEN text = <<>>
    ELSE LET l == lines[1]
             rest == SubSeq(text, Len(l) + 1, Len(text))
         IN  /\ HasPrefix(text, l)
             /\ \A i \in 1..Len(l) : l[i] \notin LineBreaks
             /\ IF rest = <<>> THEN Len(lines) = 1 /\ l # <<>>
                ELSE \E t \in LineEnds :
                        /\ HasPrefix(rest, t)
                        /\ (t = <<"\r">> => ~HasPrefix(rest, <<"\r", "\n">>))
                        /\ IsLinesOf(Tail(lines),
                                     SubSeq(rest, Len(t) + 1, Len(rest)))

ScriptParsed(k) ==
    /\ ParsedOk
    /\ HasEntry(file_obj, k)
    /\ EntryOf(file_obj, k).isreg

\* C4: a script entry parses into its text lines in order, one element per
\* line, without line terminators and without a trailing empty element;
\* 'echo a\necho b\n' yields [echo a, echo b].
C4_ScriptIsItsLines ==
    \A k \in ScriptNames :
        ScriptParsed(k) =>
            /\ IsLinesOf(parsed.value[k], EntryOf(file_obj, k).data)
            /\ (EntryOf(file_obj, k).data = EchoA \o NL \o EchoB \o NL
                  => parsed.value[k] = <<EchoA, EchoB>>)

C4_Witness ==
    /\ ScriptParsed(preRunScript)
    /\ EntryOf(file_obj, preRunScript).data = EchoA \o NL \o EchoB \o NL
    /\ parsed.value[preRunScript] = <<EchoA, EchoB>>

C4_WitnessMixedBreaks ==
    /\ ScriptParsed(preRunScript)
    /\ Len(parsed.value[preRunScript]) = 6

(***************************************************************************)
(* The form payload builder as a state machine: a constructed manager,     *)
(* create_revision called with enumerated arguments.                       *)
(***************************************************************************)
MultiLineFields ==
    {"dockerfile_instructions", "workspace_tools", "pre_run_script",
     "post_run_script", "pre_setup_script", "post_setup_script",
     "docker_arguments"}

\* The defaults of create_revision's signature.
DefaultArgs(environment) ==
    [environment |-> environment,
     image_type |-> Text(CUSTOM),
     docker_image |-> Text(<<>>),
     base_environment_revision_id |-> PyNone,
     base_default_environment_image |-> PyNone,
     dockerfile_instructions |-> Text(<<>>),
     workspace_tools |-> Text(<<>>),
     pre_run_script |-> Text(<<>>),
     post_run_script |-> Text(<<>>),
     pre_setup_script |-> Text(<<>>),
     post_setup_script |-> Text(<<>>),
     environment_variables |-> PyNone,
     docker_arguments |-> Text(<<>>),
     force_rebuild |-> PyFalse,
     should_use_vpn |-> PyFalse,
     cluster_types |-> PyNone,
     summary |-> Text(<<>>)]

\* Every multi-line field given as a list of lines.
AllLinesArgs(environment) ==
    [f \in DOMAIN DefaultArgs(environment) |->
        IF f \in MultiLineFields THEN Lines(<<EchoA, EchoB>>)
        ELSE IF f = "base_default_environment_image" THEN Text(<<"i">>)
        ELSE DefaultArgs(environment)[f]]

Digits == <<"0", "1", "2", "3", "4", "5", "6", "7", "8", "9">>
EnvPairs(n) ==
    [i \in 1..n |-> <<Text(<<"K", Digits[i]>>), Text(<<"v", Digits[i]>>)>>]

EnvironmentVariableValues ==
    {Lines(EnvPairs(n)) : n \in 0..MaxEnvVars}
    \cup {Dict(EnvPairs(n)) : n \in {0, MaxEnvVars}}
    \* a list may name a variable twice
    \cup {Lines(<< <<Text(<<"K">>), Text(<<"a">>)>>,
                   <<Text(<<"K">>), Text(<<"b">>)>> >>)}

MultiLineValues ==
    {Lines(<<>>), Lines(<<EchoA>>), Lines(<<<<"a">>, <<>>, <<"b">>>>),
     Text(<<"a", "\n", "\n", "b">>)}

\* The values a keyword argument is given.
KwargValues(f) ==
    IF f \in MultiLineFields THEN MultiLineValues
    ELSE CASE f = "image_type" -> {Text(DEFAULT)}
           [] f = "docker_image" -> {Text(Ubuntu)}
           [] f = "base_environment_revision_id" -> {Text(<<>>), Text(<<"r", "9">>)}
           [] f = "base_default_environment_image" -> {Text(<<>>), Text(<<"i">>)}
           [] f = "environment_variables" -> EnvironmentVariableValues
           [] f = "force_rebuild" -> {PyTrue}
           [] f = "should_use_vpn" -> {PyTrue}
           [] f = "cluster_types" -> {Text(<<>>), Text(SPARK)}
           [] f = "summary" -> {Text(<<"s">>)}

Kwargs == DOMAIN DefaultArgs(PyNone) \ {"environment"}

RECURSIVE WithKwargs(_, _)
WithKwargs(bases, n) ==
    IF n = 0 THEN bases
    ELSE LET fewer == WithKwargs(bases, n - 1)
         IN  fewer \cup {[a EXCEPT ![f] = v] :
                            a \in fewer, <<f, v>> \in
                                UNION {{f} \X KwargValues(f) : f \in Kwargs}}

AnEnvironment == Environment(Text(<<"e", "1">>), RevisionData(<<"r", "1">>))

RevisionArgs ==
    WithKwargs({DefaultArgs(AnEnvironment), AllLinesArgs(AnEnvironment)},
               MaxKwargs)

HttpAnswers == {Response(200), Response(500), RequestException}

\* The caches a constructed manager holds: the default environment, and the
\* parse of its revision archive (with and without a Dockerfile entry).
DefaultEnvironments ==
    {Environment(Text(<<"d">>), RevisionData(<<"r", "0">>))}

DefaultArchives ==
    {<<File(Dockerfile, ExampleDockerfile)>>, <<File(preRunScript, EchoA)>>}

InitPayload ==
    /\ file_obj = <<>>
    /\ parsed = NotCalled
    /\ environ = [n \in EnvNames |-> PyNone]
    /\ manager = "constructed"
    /\ request_manager = RequestManager("DominoAPIKeyAuth", Text(<<"k">>))
    /\ default_environment \in DefaultEnvironments
    /\ default_details \in {parse_revision_tar(a).value : a \in DefaultArchives}
    /\ routes = EnvironmentRoutes(clean_host_url(Text(<<"h">>)))
    /\ version = "compatible"
    /\ call = NoCall
    /\ responses = <<>>

\* One call in each behaviour: the payload depends on the arguments and the
\* cache only, not on the calls before.
NextPayload ==
    /\ call.op = "none"
    /\ \E args \in RevisionArgs, http \in {Response(200), RequestException} :
          CreateRevision(args, http)

SpecPayload == InitPayload /\ [][NextPayload]_vars

(***************************************************************************)
(* Claims about the form payload (checked under SpecPayload).              *)
(***************************************************************************)
\* create_revision was called and built a payload (it posted it).
PayloadBuilt == call.op = "create_revision" /\ call.requests # <<>>
FormPayload == call.requests[1].data

FixedKeys ==
    {"base.imageType", "base.dockerImage", "base.baseEnvironmentRevisionId",
     "base.defaultEnvironmentImage", "dockerfileInstructions", "properties",
     "preRunScript", "postRunScript", "preSetupScript", "postSetupScript",
     "dockerArguments", "summary"}
OptionalKeys == {"noCache", "shouldUseVPN", "clusterTypes[]"}

\* The keys of the environment variable at positions 0, 1, 2, ...
NameKeys ==
    <<"buildEnvironmentVariables[0].name", "buildEnvironmentVariables[1].name",
      "buildEnvironmentVariables[2].name", "buildEnvironmentVariables[3].name",
      "buildEnvironmentVariables[4].name", "buildEnvironmentVariables[5].name">>
ValueKeys ==
    <<"buildEnvironmentVariables[0].value", "buildEnvironmentVariables[1].value",
      "buildEnvironmentVariables[2].value", "buildEnvironmentVariables[3].value",
      "buildEnvironmentVariables[4].value", "buildEnvironmentVariables[5].value">>

\* The (name, value) pairs passed, in order.
PairsPassed ==
    IF call.args.environment_variables.type = "NoneType" THEN <<>>
    ELSE call.args.environment_variables.val

\* C5: n environment variables make exactly 2n keys, indexed 0..n-1 without
\* gaps, the keys of index i carrying the i-th pair.
C5_EnvironmentVariableKeys ==
    PayloadBuilt =>
        LET n == Len(PairsPassed)
        IN  /\ DOMAIN FormPayload \ (FixedKeys \cup OptionalKeys)
                 = {NameKeys[i] : i \in 1..n} \cup {ValueKeys[i] : i \in 1..n}
            /\ Cardinality(DOMAIN FormPayload \ (FixedKeys \cup OptionalKeys))
                 = 2 * n
            /\ \A i \in 1..n :
                  /\ FormPayload[NameKeys[i]] = PairsPassed[i][1]
                  /\ FormPayload[ValueKeys[i]] = PairsPassed[i][2]

C5_Witness ==
    /\ PayloadBuilt
    /\ Len(PairsPassed) = MaxEnvVars
    /\ call.args.environment_variables.type = "list"
    /\ ValueKeys[MaxEnvVars] \in DOMAIN FormPayload

C5_WitnessEmpty ==
    /\ PayloadBuilt
    /\ call.args.environment_variables = Lines(<<>>)
    /\ DOMAIN FormPayload = FixedKeys

\* The lines with a newline between each two of them.
RECURSIVE NewlineJoined(_)
NewlineJoined(lines) ==
    IF lines = <<>> THEN <<>>
    ELSE IF Len(lines) = 1 THEN lines[1]
    ELSE NewlineJoined(SubSeq(lines, 1, Len(lines) - 1))
            \o <<"\n">> \o lines[Len(lines)]

AsString(v) == IF v.type = "list" THEN Text(NewlineJoined(v.val)) ELSE v

\* The arguments of the call, each multi-line field given pre-joined.
JoinedArgs ==
    [f \in DOMAIN call.args |->
        IF f \in MultiLineFields THEN AsString(call.args[f]) ELSE call.args[f]]

\* C6: the payload of a call equals the payload of the call with every
\* multi-line field given as the newline-joined string instead; normalizing
\* a normalized value changes nothing.
C6_ListsAndJoinedStringsAgree ==
    PayloadBuilt =>
        /\ create_revision(JoinedArgs, default_environment, default_details,
                           Response(200)).requests = call.requests
        /\ \A f \in MultiLineFields :
              /\ list_to_string(AsString(call.args[f])) = AsString(call.args[f])
              /\ list_to_string(list_to_string(call.args[f]))
                    = list_to_string(call.args[f])

C6_Witness ==
    /\ PayloadBuilt
    /\ \A f \in MultiLineFields :
          call.args[f].type = "list" /\ Len(call.args[f].val) >= 1
    /\ \E f \in MultiLineFields : Len(call.args[f].val) >= 3
    /\ FormPayload["dockerArguments"].type = "str"

\* C7: noCache, shouldUseVPN and clusterTypes[] are in the payload exactly
\* when their argument is truthy, with the values True, "on" and the
\* argument itself.
C7_OptionalKeysIffTruthy ==
    PayloadBuilt =>
        /\ "noCache" \in DOMAIN FormPayload <=> call.args.force_rebuild = PyTrue
        /\ "noCache" \in DOMAIN FormPayload => FormPayload["noCache"] = PyTrue
        /\ "shouldUseVPN" \in DOMAIN FormPayload
              <=> call.args.should_use_vpn = PyTrue
        /\ "shouldUseVPN" \in DOMAIN FormPayload
              => FormPayload["shouldUseVPN"] = Text(<<"o", "n">>)
        /\ "clusterTypes[]" \in DOMAIN FormPayload
              <=> (/\ call.args.cluster_types.type = "str"
                   /\ call.args.cluster_types.val # <<>>)
        /\ "clusterTypes[]" \in DOMAIN FormPayload
              => FormPayload["clusterTypes[]"] = call.args.cluster_types

C7_Witness ==
    /\ PayloadBuilt
    /\ call.args.force_rebuild = PyTrue
    /\ call.args.cluster_types = Text(SPARK)
    /\ {"noCache", "clusterTypes[]"} \subseteq DOMAIN FormPayload
    /\ "shouldUseVPN" \notin DOMAIN FormPayload

C7_WitnessFalsy ==
    /\ PayloadBuilt
    /\ call.args.cluster_types = Text(<<>>)
    /\ call.args.should_use_vpn = PyTrue
    /\ DOMAIN FormPayload = FixedKeys \cup {"shouldUseVPN"}

\* C8: every value of the payload is a string (every key is one by
\* construction).
C8_AllValuesAreStrings ==
    PayloadBuilt => \A k \in DOMAIN FormPayload : FormPayload[k].type = "str"

\* The payload key each field of the configuration is read back from.
FieldKey ==
    [image_type |-> "base.imageType",
     docker_image |-> "base.dockerImage",
     dockerfile_instructions |-> "dockerfileInstructions",
     workspace_tools |-> "properties",
     pre_run_script |-> "preRunScript",
     post_run_script |-> "postRunScript",
     pre_setup_script |-> "preSetupScript",
     post_setup_script |-> "postSetupScript",
     docker_arguments |-> "dockerArguments",
     summary |-> "summary"]

\* C9: every field is read back from its own key as the value supplied (a
\* list as its newline-joined string), the environment variables from the
\* indexed keys; no two fields share a key.
C9_RoundTrip ==
    PayloadBuilt =>
        /\ \A f \in DOMAIN FieldKey :
              FormPayload[FieldKey[f]] = AsString(call.args[f])
        /\ \A f, g \in DOMAIN FieldKey : FieldKey[f] = FieldKey[g] => f = g
        /\ \A i \in 1..Len(PairsPassed) :
              <<FormPayload[NameKeys[i]], FormPayload[ValueKeys[i]]>>
                 = PairsPassed[i]
        /\ {FieldKey[f] : f \in DOMAIN FieldKey}
              \cup {NameKeys[i] : i \in 1..Len(PairsPassed)}
              \cup {ValueKeys[i] : i \in 1..Len(PairsPassed)}
              \subseteq DOMAIN FormPayload

C9_Witness ==
    /\ PayloadBuilt
    /\ call.args.pre_run_script.type = "list"
    /\ call.args.post_run_script.type = "str"
    /\ FormPayload["preRunScript"] # FormPayload["postRunScript"]
    /\ Len(PairsPassed) >= 2

(***************************************************************************)
(* EnvironmentManager.__init__ and refresh_defaults.                       *)
(***************************************************************************)
HostMessage == "Host must be supplied as a parameter or through the "
AuthMessage == "Either api_key or path_to_domino_token_file must be provided"
VersionMessage == "Domino version is not compatible"

\* A slip: no check, API key auth whenever no token file is given.
initialise_request_manager_unchecked(api_key, domino_token_file) ==
    IF domino_token_file.type # "NoneType"
    THEN Returned(RequestManager("BearerAuth", domino_token_file))
    ELSE Returned(RequestManager("DominoAPIKeyAuth", api_key))

\* _initialise_request_manager(api_key, domino_token_file)
initialise_request_manager(api_key, domino_token_file) ==
    IF api_key.type = "NoneType" /\ domino_token_file.type = "NoneType"
    THEN Raised(AuthMessage)
    ELSE IF domino_token_file.type # "NoneType"
    THEN Returned(RequestManager("BearerAuth", domino_token_file))
    ELSE Returned(RequestManager("DominoAPIKeyAuth", api_key))

\* What the remote answers to the requests of construction: to GET /version
\* (a version is_version_compatible accepts, one it rejects, or the request
\* raises), to GET defaultEnvironment (the environment's data, or the request
\* raises) and to the download of the revision archive (a tar archive, bytes
\* that are no tar archive, or the request raises).
VersionAnswers == {"compatible", "incompatible", "error"}
Answer(data) == [raised |-> FALSE, data |-> data]
NoAnswer == [raised |-> TRUE, data |-> <<>>]
NotATar == [raised |-> FALSE, data |-> <<[name |-> <<>>, isreg |-> FALSE,
                                           data |-> <<InvalidByte>>]>>]

\* revision.get("id") of a revision that may be None: the id, None when the
\* dict has no id, AttributeError when the revision is None.
revision_id_of(revision) ==
    IF revision.type # "dict" THEN Raised("AttributeError")
    ELSE IF HasKey(revision, IdKey) THEN Returned(DictGet(revision, IdKey))
    ELSE Returned(PyNone)

\* _scrape_revision(environment_id, revision_id): one download, then the
\* parse of what was downloaded.
scrape_revision(environment_id, revision_id, archive) ==
    [requests |-> <<Get("revision_download", <<environment_id, revision_id>>)>>,
     result |-> IF archive.raised THEN Raised("RequestException")
                ELSE IF archive = NotATar THEN Raised("ReadError")
                ELSE parse_revision_tar(archive.data)]

\* get_revision_details(environment, revision_id): the requests issued and
\* the parse or the exception.
get_revision_details_of(environment, revision_id, archive) ==
    IF Truthy(revision_id)
    THEN scrape_revision(environment.id, revision_id, archive)
    ELSE LET active == revision_id_of(environment.selectedRevision)
         IN  IF active.raised THEN [requests |-> <<>>, result |-> active]
             ELSE scrape_revision(environment.id, active.value, archive)

\* get_revision_details(environment) with the default revision_id.
get_revision_details(environment, archive) ==
    get_revision_details_of(environment, PyNone, archive)

\* refresh_defaults(): the requests issued, the exception if one is raised,
\* and the two cached attributes afterwards. _default_environment is
\* assigned before the details are fetched.
refresh_defaults(denv, ddetails, default, archive) ==
    LET request == Get("environment_default_get", <<>>)
    IN  IF default.raised
        THEN [requests |-> <<request>>, result |-> Raised("RequestException"),
              default_environment |-> denv, default_details |-> ddetails]
        ELSE LET details == get_revision_details(default.data, archive)
             IN  [requests |-> <<request>> \o details.requests,
                  result |-> IF details.result.raised THEN details.result
                             ELSE Returned(None),
                  default_environment |-> default.data,
                  default_details |-> IF details.result.raised THEN ddetails
                                      ELSE details.result.value]

\* Environment variable first: the reverse of the precedence of __init__.
resolve_host_env_first(host, env) == PyOr(env["DOMINO_API_HOST"], host)

\* _host = host or os.getenv(DOMINO_HOST_KEY_NAME)
resolve_host(host, env) == PyOr(host, env["DOMINO_API_HOST"])

\* Every version passes.
is_version_compatible_unchecked(deployment_version) == TRUE

\* is_version_compatible(self._version), of the two kinds of version the
\* remote may report.
is_version_compatible(deployment_version) == deployment_version = "compatible"

\* __init__(host, api_key, domino_token_file): what it raised if it did, the
\* requests it issued, and the attributes it set before it returned or
\* raised.
construct(args, env, remote_version, default, archive) ==
    LET host == resolve_host(args.host, env)
        domino_token_file == PyOr(args.domino_token_file, env["DOMINO_TOKEN_FILE"])
        api_key == PyOr(args.api_key, env["DOMINO_USER_API_KEY"])
        rm == initialise_request_manager(api_key, domino_token_file)
        nothing == [requests |-> <<>>, result |-> Raised(HostMessage),
                    request_manager |-> NoRequestManager,
                    routes |-> NoRoutes, version |-> NoVersion,
                    default_environment |-> Environment(PyNone, PyNone),
                    default_details |-> EmptyDict]
        version_request == Get("deployment_version", <<>>)
    IN  IF ~Truthy(host) THEN nothing
        ELSE IF rm.raised THEN [nothing EXCEPT !.result = rm]
        ELSE LET made == [nothing EXCEPT
                            !.request_manager = rm.value,
                            !.routes = EnvironmentRoutes(clean_host_url(host)),
                            !.requests = <<version_request>>]
             IN  IF remote_version = "error"
                 THEN [made EXCEPT !.result = Raised("RequestException")]
                 ELSE IF ~is_version_compatible(remote_version)
                 THEN [made EXCEPT !.version = remote_version,
                                   !.result = Raised(VersionMessage)]
                 ELSE LET r == refresh_defaults(nothing.default_environment,
                                                nothing.default_details,
                                                default, archive)
                      IN  [made EXCEPT
                             !.version = remote_version,
                             !.requests = <<version_request>> \o r.requests,
                             !.result = r.result,
                             !.default_environment = r.default_environment,
                             !.default_details = r.default_details]

\* The constructor: an instance results only when it does not raise.
Construct(args, remote_version, default, archive) ==
    /\ manager = "none"
    /\ LET did == construct(args, environ, remote_version, default, archive)
       IN  /\ call' = CallOf("__init__", args, did)
           /\ responses' = Received(did, <<remote_version, default, archive>>)
           /\ manager' = IF did.result.raised THEN "failed" ELSE "constructed"
           /\ request_manager' = did.request_manager
           /\ routes' = did.routes
           /\ version' = did.version
           /\ default_environment' = did.default_environment
           /\ default_details' = did.default_details
    /\ UNCHANGED <<parser_vars, environ>>

(***************************************************************************)
(* The operations of a constructed EnvironmentManager.                     *)
(***************************************************************************)
\* refresh_defaults() called on a constructed manager.
RefreshDefaults(default, archive) ==
    /\ manager = "constructed"
    /\ LET did == refresh_defaults(default_environment, default_details,
                                   default, archive)
       IN  /\ call' = CallOf("refresh_defaults", EmptyDict, did)
           /\ responses' = Received(did, <<default, archive>>)
           /\ default_environment' = did.default_environment
           /\ default_details' = did.default_details
    /\ UNCHANGED <<parser_vars, environ, manager, request_manager, routes,
                   version>>

\* A slip: the environment fetched is kept as the cached default.
get_default_environment_cached(denv, default) ==
    [requests |-> <<Get("environment_default_get", <<>>)>>,
     result |-> IF default.raised THEN Raised("RequestException")
                ELSE Returned(default.data),
     default_environment |-> IF default.raised THEN denv ELSE default.data]

\* get_default_environment(): one request, the Environment of its answer;
\* self._default_environment stays what it was.
get_default_environment(denv, default) ==
    [requests |-> <<Get("environment_default_get", <<>>)>>,
     result |-> IF default.raised THEN Raised("RequestException")
                ELSE Returned(default.data),
     default_environment |-> denv]

GetDefaultEnvironment(default) ==
    /\ manager = "constructed"
    /\ LET did == get_default_environment(default_environment, default)
       IN  /\ call' = CallOf("get_default_environment", EmptyDict, did)
           /\ responses' = Received(did, <<default>>)
           /\ default_environment' = did.default_environment
    /\ UNCHANGED <<parser_vars, environ, manager, request_manager, routes,
                   version, default_details>>

\* A slip: a failed request is issued once more.
archive_environment_retried(environment, http) ==
    LET request == Post("environment_remove", <<environment.id>>, EmptyDict)
    IN  [requests |-> IF http.raised \/ http.status_code >= 400
                      THEN <<request, request>> ELSE <<request>>,
         result |-> IF http.raised THEN Raised("RequestException")
                    ELSE Returned(http)]

\* archive_environment(environment): one POST, its response returned.
archive_environment(environment, http) ==
    [requests |-> <<Post("environment_remove", <<environment.id>>, EmptyDict)>>,
     result |-> IF http.raised THEN Raised("RequestException")
                ELSE Returned(http)]

ArchiveEnvironment(environment, http) ==
    /\ manager = "constructed"
    /\ LET did == archive_environment(environment, http)
       IN  /\ call' = CallOf("archive_environment",
                             [environment |-> environment], did)
           /\ responses' = Received(did, <<http>>)
    /\ UNCHANGED <<parser_vars, manager_vars>>

\* get_environment(environment_id): one GET, the Environment of its answer.
get_environment(environment_id, answer) ==
    [requests |-> <<Get("environment_get", <<environment_id>>)>>,
     result |-> IF answer.raised THEN Raised("RequestException")
                ELSE Returned(answer.data)]

GetEnvironment(environment_id, answer) ==
    /\ manager = "constructed"
    /\ LET did == get_environment(environment_id, answer)
       IN  /\ call' = CallOf("get_environment",
                             [environment_id |-> environment_id], did)
           /\ responses' = Received(did, <<answer>>)
    /\ UNCHANGED <<parser_vars, manager_vars>>

GetRevisionDetails(environment, revision_id, archive) ==
    /\ manager = "constructed"
    /\ LET did == get_revision_details_of(environment, revision_id,
                                          archive)
       IN  /\ call' = CallOf("get_revision_details",
                             [environment |-> environment,
                              revision_id |-> revision_id], did)
           /\ responses' = Received(did, <<archive>>)
    /\ UNCHANGED <<parser_vars, manager_vars>>

\* d[key] of a value that should be a dict.
Subscript(d, key) ==
    IF d.type # "dict" THEN Raised("TypeError")
    ELSE IF HasKey(d, key) THEN Returned(DictGet(d, key))
    ELSE Raised("KeyError")

\* revision_id or environment.latest_revision.get("id")
latest_revision_id_of(environment, revision_id) ==
    IF Truthy(revision_id) THEN Returned(revision_id)
    ELSE revision_id_of(environment.latestRevision)

\* The one page of revision summaries that is ever requested.
pageStart == 0
pageEnd == 500

\* _get_revision_summary(environment_id): one GET of the page, its JSON.
get_revision_summary(environment_id, summary) ==
    [requests |-> <<Get("revision_summaries",
                        <<environment_id, pageStart, pageEnd>>)>>,
     result |-> IF summary.raised THEN Raised("RequestException")
                ELSE Returned(summary.data)]

BuildStatusKey ==
    Text(<<"b", "u", "i", "l", "d", "S", "t", "a", "t", "u", "s">>)
BuildLogsUrlKey ==
    Text(<<"b", "u", "i", "l", "d", "L", "o", "g", "s", "U", "r", "l">>)

\* summary[key][revision_id] of the summary fetched for an environment.
summary_entry(environment, revision_id, key, summary) ==
    LET id == latest_revision_id_of(environment, revision_id)
    IN  IF id.raised THEN [requests |-> <<>>, result |-> id]
        ELSE LET fetched == get_revision_summary(environment.id, summary)
                 by_revision == Subscript(fetched.result.value, key)
             IN  [requests |-> fetched.requests,
                  result |-> IF fetched.result.raised THEN fetched.result
                             ELSE IF by_revision.raised THEN by_revision
                             ELSE Subscript(by_revision.value, id.value)]

\* get_build_status(environment, revision_id)
get_build_status(environment, revision_id, summary) ==
    summary_entry(environment, revision_id, BuildStatusKey, summary)

GetBuildStatus(environment, revision_id, summary) ==
    /\ manager = "constructed"
    /\ LET did == get_build_status(environment, revision_id, summary)
       IN  /\ call' = CallOf("get_build_status",
                             [environment |-> environment,
                              revision_id |-> revision_id], did)
           /\ responses' = Received(did, <<summary>>)
    /\ UNCHANGED <<parser_vars, manager_vars>>

\* regex.findall(res.text): the contents of the cells of class "line", of a
\* page given as its rows.
IsLine(row) == row.line
findall(page) ==
    LET cells == SelectSeq(page, IsLine)
    IN  Lines([i \in 1..Len(cells) |-> cells[i].text])

\* get_build_logs(environment, revision_id): the summary, then the page of
\* logs the summary points at.
get_build_logs(environment, revision_id, summary, logs) ==
    LET logs_url == summary_entry(environment, revision_id, BuildLogsUrlKey,
                                  summary)
    IN  IF logs_url.result.raised THEN logs_url
        ELSE [requests |-> logs_url.requests
                           \o <<Get("build_logs", <<logs_url.result.value>>)>>,
              result |-> IF logs.raised THEN Raised("RequestException")
                         ELSE Returned(findall(logs.data))]

GetBuildLogs(environment, revision_id, summary, logs) ==
    /\ manager = "constructed"
    /\ LET did == get_build_logs(environment, revision_id, summary, logs)
       IN  /\ call' = CallOf("get_build_logs",
                             [environment |-> environment,
                              revision_id |-> revision_id], did)
           /\ responses' = Received(did, <<summary, logs>>)
    /\ UNCHANGED <<parser_vars, manager_vars>>

\* class Visibility
GLOBAL == <<"G", "l", "o", "b", "a", "l">>
ORGANIZATION ==
    <<"O", "r", "g", "a", "n", "i", "z", "a", "t", "i", "o", "n">>
PRIVATE == <<"P", "r", "i", "v", "a", "t", "e">>

\* The form payload of create_environment, given the two base values.
environment_payload_of(args, rev, img) ==
    LET description == list_to_string(args.description)
        form_payload ==
            ("name" :> args.name)
            @@ ("description" :> description)
            @@ ("visibility" :> args.visibility)
            @@ ("base.imageType" :> args.image_type)
            @@ ("base.dockerImage" :> args.docker_image)
            @@ ("base.baseEnvironmentRevisionId" :> rev)
            @@ ("base.defaultEnvironmentImage" :> img)
        p1 == IF args.visibility = Text(ORGANIZATION)
              THEN SetItem(form_payload, "organizationOwnerId",
                           args.organization_owner_id)
              ELSE form_payload
        p2 == IF Truthy(args.user_owner_id)
              THEN SetItem(p1, "userOwnerId", args.user_owner_id) ELSE p1
    IN  IF Truthy(args.cluster_types)
        THEN SetItem(p2, "clusterTypes[]", args.cluster_types) ELSE p2

\* A response with the URL it finally came from; response.ok, and whether
\* response.raise_for_status() raises: on a status from 400 to 599.
ResponseAt(status_code, url) ==
    [raised |-> FALSE, status_code |-> status_code, url |-> url]
NoResponse == [raised |-> TRUE, status_code |-> 0, url |-> <<>>]
raises_for_status(response) ==
    response.status_code >= 400 /\ response.status_code < 600
ok(response) == ~raises_for_status(response)

ENVIRONMENTS ==
    <<"e", "n", "v", "i", "r", "o", "n", "m", "e", "n", "t", "s">>

\* A slip: the form's own URL is not told apart from a new environment's.
env_id_of_unchecked(response) ==
    LET segments == PySplit(response.url, "/")
    IN  Returned(Text(segments[Len(segments)]))

\* env_id = response.url.split("/")[-1], refused when it is "environments"
env_id_of(response) ==
    LET segments == PySplit(response.url, "/")
        env_id == segments[Len(segments)]
    IN  IF env_id = ENVIRONMENTS THEN Raised("ValueError")
        ELSE Returned(Text(env_id))

\* A slip: a response that is not ok is handed back with no id.
after_create_environment_lenient(response) ==
    IF response.raised THEN Raised("RequestException")
    ELSE IF ok(response)
    THEN LET env_id == env_id_of(response)
         IN  IF env_id.raised THEN env_id
             ELSE Returned([response |-> response, env_id |-> env_id.value])
    ELSE Returned([response |-> response, env_id |-> PyNone])

\* What create_environment does with the answer to its POST.
after_create_environment(response) ==
    IF response.raised THEN Raised("RequestException")
    ELSE IF ok(response)
    THEN LET env_id == env_id_of(response)
         IN  IF env_id.raised THEN env_id
             ELSE Returned([response |-> response, env_id |-> env_id.value])
    ELSE IF raises_for_status(response) THEN Raised("HTTPError")
    ELSE Returned([response |-> response, env_id |-> PyNone])

\* create_environment: the requests it issues and what it returns or raises.
create_environment(args, denv, ddetails, http) ==
    LET rev == base_environment_revision_id_of(args, denv)
        img == base_default_environment_image_of(args, ddetails)
    IN  IF rev.raised THEN [requests |-> <<>>, result |-> rev]
        ELSE IF img.raised THEN [requests |-> <<>>, result |-> img]
        ELSE [requests |->
                 <<Post("environment_create", <<>>,
                        environment_payload_of(args, rev.value, img.value))>>,
              result |-> after_create_environment(http)]

CreateEnvironment(args, http) ==
    /\ manager = "constructed"
    /\ LET did == create_environment(args, default_environment,
                                     default_details, http)
       IN  /\ call' = CallOf("create_environment", args, did)
           /\ responses' = Received(did, <<http>>)
    /\ UNCHANGED <<parser_vars, manager_vars>>

(***************************************************************************)
(* The manager as a state machine: a process environment, one              *)
(* EnvironmentManager constructed in it, then its operations.              *)
(***************************************************************************)
\* An argument or an environment variable: absent, empty, or a value.
Absent == PyNone
Settings == {Absent, Text(<<>>), Text(<<"x">>)}
EnvSettings == {Absent, Text(<<>>), Text(<<"e">>)}

ConstructorArgs == [host : Settings, api_key : Settings, domino_token_file : Settings]

\* The default environment and its Dockerfile after the remote changed them.
ChangedDefault == Environment(Text(<<"d">>), RevisionData(<<"r", "1">>))
ChangedDockerfile ==
    PyJoin(NL, <<FROM \o <<"p", "y", ":", "3">>, Wrapper, RunBar, Wrapper,
                 Wrapper>>)

DefaultAnswers ==
    {Answer(e) : e \in DefaultEnvironments}
    \cup {Answer(ChangedDefault), Answer(Environment(Text(<<"d">>), PyNone)),
          NoAnswer}

ArchiveAnswers ==
    {Answer(a) : a \in DefaultArchives}
    \cup {Answer(<<File(Dockerfile, ChangedDockerfile)>>),
          Answer(<<File(Dockerfile, <<>>)>>), NotATar, NoAnswer}

\* The create_revision calls of this state machine: the two base values
\* passed or left to the cache.
BaseArgs ==
    {[DefaultArgs(AnEnvironment) EXCEPT
         !.base_environment_revision_id = rev,
         !.base_default_environment_image = img] :
       rev \in {PyNone, Text(<<>>), Text(<<"r", "9">>)},
       img \in {PyNone, Text(<<>>), Text(<<"i">>)}}

Init ==
    /\ file_obj = <<>>
    /\ parsed = NotCalled
    /\ environ \in [EnvNames -> EnvSettings]
    /\ manager = "none"
    /\ request_manager = NoRequestManager
    /\ default_environment = Environment(PyNone, PyNone)
    /\ default_details = EmptyDict
    /\ routes = NoRoutes
    /\ version = NoVersion
    /\ call = NoCall
    /\ responses = <<>>

Next ==
    \/ \E args \in ConstructorArgs, remote_version \in VersionAnswers,
          default \in DefaultAnswers, archive \in ArchiveAnswers :
            Construct(args, remote_version, default, archive)
    \/ \E args \in BaseArgs, http \in HttpAnswers : CreateRevision(args, http)

Spec == Init /\ [][Next]_vars

(***************************************************************************)
(* Claims about construction (checked under Spec).                         *)
(***************************************************************************)
Constructed == call.op = "__init__"

\* Neither passed to the constructor nor set in the environment.
NotSupplied(arg, name) == call.args[arg] = Absent /\ environ[name] = Absent

\* C10: constructing a manager with neither an API key nor a token file
\* supplied (as an argument or through its environment variable) raises
\* before any HTTP request is issued, and no manager results.
C10_NoCredentialsRaisesAtOnce ==
    (/\ Constructed
     /\ NotSupplied("api_key", "DOMINO_USER_API_KEY")
     /\ NotSupplied("domino_token_file", "DOMINO_TOKEN_FILE"))
    => /\ call.raised
       /\ call.requests = <<>>
       /\ manager = "failed"
       /\ request_manager = NoRequestManager

C10_Witness ==
    /\ Constructed
    /\ NotSupplied("api_key", "DOMINO_USER_API_KEY")
    /\ NotSupplied("domino_token_file", "DOMINO_TOKEN_FILE")
    /\ Truthy(call.args.host)
    /\ call.raised /\ call.value = AuthMessage
    /\ call.requests = <<>>

\* The requests that fetch default-environment data.
DefaultRoutes == {"environment_default_get", "revision_download"}

FetchesDefaults(requests) ==
    \E i \in 1..Len(requests) : requests[i].route \in DefaultRoutes

CacheUnpopulated ==
    /\ default_environment = Environment(PyNone, PyNone)
    /\ default_details = EmptyDict

\* C11: the constructor fetches the deployment version first and fetches
\* default-environment data only after that version was found compatible;
\* when the version is not compatible the constructor raises, having issued
\* the version request alone, no manager results and the cache stays
\* unpopulated.
C11_VersionCheckedBeforeDefaults ==
    /\ (Constructed /\ call.requests # <<>>)
          => call.requests[1] = Get("deployment_version", <<>>)
    /\ (Constructed /\ FetchesDefaults(call.requests))
          => /\ ~FetchesDefaults(<<call.requests[1]>>)
             /\ responses[1] = "compatible"
    /\ version = "incompatible"
          => /\ Constructed
             /\ call.raised /\ call.value = VersionMessage
             /\ call.requests = <<Get("deployment_version", <<>>)>>
             /\ manager = "failed"
             /\ CacheUnpopulated

C11_Witness ==
    /\ Constructed
    /\ responses = <<"incompatible">>
    /\ version = "incompatible"
    /\ request_manager # NoRequestManager
    /\ call.raised /\ call.value = VersionMessage
    /\ CacheUnpopulated

HostPassed == Truthy(call.args.host)
HostInEnvironment == Truthy(environ["DOMINO_API_HOST"])

\* C12: the host of a manager's routes is the host argument when one is
\* passed and not empty, even when DOMINO_API_HOST is set, and the value of
\* DOMINO_API_HOST otherwise; when neither gives a value the constructor
\* raises the host error with no request manager created and no request
\* issued, and it raises that error in no other case.
C12_HostPrecedence ==
    Constructed =>
       /\ (routes # NoRoutes /\ HostPassed)
             => routes.host = clean_host_url(call.args.host)
       /\ (routes # NoRoutes /\ ~HostPassed)
             => routes.host = clean_host_url(environ["DOMINO_API_HOST"])
       /\ (~HostPassed /\ ~HostInEnvironment)
             => /\ call.raised /\ call.value = HostMessage
                /\ call.requests = <<>>
                /\ request_manager = NoRequestManager
                /\ routes = NoRoutes
                /\ manager = "failed"
       /\ (HostPassed \/ HostInEnvironment) => call.value # HostMessage

C12_Witness ==
    /\ Constructed
    /\ HostPassed /\ HostInEnvironment
    /\ call.args.host # environ["DOMINO_API_HOST"]
    /\ routes.host = clean_host_url(call.args.host)
    /\ manager = "constructed"

C12_WitnessNoHost ==
    /\ Constructed
    /\ ~HostPassed /\ ~HostInEnvironment
    /\ Truthy(call.args.api_key)
    /\ call.raised /\ call.value = HostMessage

(***************************************************************************)
(* One manager and every operation of it: construction with the host and   *)
(* an API key passed, then any sequence of calls, the remote answering     *)
(* each request in any of the ways below.                                  *)
(***************************************************************************)
ManagerArgs ==
    {[host |-> Text(<<"x">>), api_key |-> Text(<<"k">>),
      domino_token_file |-> Absent]}

\* The Environment objects a caller holds: one with an active and a latest
\* revision, one whose data has neither.
UserEnvironments ==
    {EnvironmentData(Text(<<"e", "1">>), RevisionData(<<"r", "1">>),
                     RevisionData(<<"r", "2">>)),
     Environment(Text(<<"e", "2">>), PyNone)}

RevisionIds == {PyNone, Text(<<"r", "9">>)}

\* Answers to GET /v4/environments/{id}: the environment, the body of an
\* error response, or the request raises.
EnvironmentAnswers ==
    {Answer(AnEnvironment), Answer(Environment(PyNone, PyNone)), NoAnswer}

\* Answers to the GET of the revision summaries: a page that knows revision
\* r2, the body of an error response, or the request raises.
Succeeded == Text(<<"S", "u", "c", "c", "e", "e", "d", "e", "d">>)
LogsUrl == Text(<<"/", "l", "o", "g", "s">>)
Summary ==
    Dict(<< <<BuildStatusKey,
              Dict(<< <<Text(<<"r", "2">>), Succeeded>> >>)>>,
            <<BuildLogsUrlKey,
              Dict(<< <<Text(<<"r", "2">>), LogsUrl>> >>)>> >>)
SummaryAnswers == {Answer(Summary), Answer(Dict(<<>>)), NoAnswer}

\* Answers to the GET of the build logs: a page of two rows, one a log line.
LogAnswers ==
    {Answer(<<[line |-> TRUE, text |-> EchoA],
              [line |-> FALSE, text |-> EchoB]>>),
     NoAnswer}

\* The defaults of create_environment's signature, for a private custom
\* image named n.
DefaultEnvironmentArgs ==
    [name |-> Text(<<"n">>),
     image_type |-> Text(CUSTOM),
     visibility |-> Text(PRIVATE),
     description |-> Text(<<>>),
     docker_image |-> Text(<<>>),
     base_environment_revision_id |-> PyNone,
     base_default_environment_image |-> PyNone,
     user_owner_id |-> PyNone,
     organization_owner_id |-> PyNone,
     cluster_types |-> PyNone]

EnvironmentArgs ==
    {[DefaultEnvironmentArgs EXCEPT
         !.visibility = Text(visibility),
         !.base_environment_revision_id = rev,
         !.base_default_environment_image = img] :
       visibility \in {PRIVATE, ORGANIZATION},
       rev \in {PyNone, Text(<<>>), Text(<<"r", "9">>)},
       img \in {PyNone, Text(<<"i">>)}}

\* Answers to the POST of create_environment: the final URL is the form's,
\* a new environment's, or one that ends in a slash.
FormUrl == <<"h", "/">> \o ENVIRONMENTS
CreatedUrls == {FormUrl, FormUrl \o <<"/", "e", "9">>, FormUrl \o <<"/">>}
CreateAnswers ==
    {ResponseAt(200, url) : url \in CreatedUrls}
    \cup {ResponseAt(400, FormUrl), ResponseAt(500, FormUrl), NoResponse}

InitManager ==
    /\ file_obj = <<>>
    /\ parsed = NotCalled
    /\ NoManager

NextManager ==
    \/ \E args \in ManagerArgs, remote_version \in VersionAnswers,
          default \in DefaultAnswers, archive \in ArchiveAnswers :
            Construct(args, remote_version, default, archive)
    \/ \E default \in DefaultAnswers, archive \in ArchiveAnswers :
            RefreshDefaults(default, archive)
    \/ \E default \in DefaultAnswers : GetDefaultEnvironment(default)
    \/ \E environment_id \in {Text(<<"e", "1">>)},
          answer \in EnvironmentAnswers :
            GetEnvironment(environment_id, answer)
    \/ \E environment \in UserEnvironments, http \in HttpAnswers :
            ArchiveEnvironment(environment, http)
    \/ \E args \in EnvironmentArgs, http \in CreateAnswers :
            CreateEnvironment(args, http)
    \/ \E args \in BaseArgs, http \in HttpAnswers : CreateRevision(args, http)
    \/ \E environment \in UserEnvironments, revision_id \in RevisionIds,
          archive \in ArchiveAnswers :
            GetRevisionDetails(environment, revision_id, archive)
    \/ \E environment \in UserEnvironments, revision_id \in RevisionIds,
          summary \in SummaryAnswers :
            GetBuildStatus(environment, revision_id, summary)
    \/ \E environment \in UserEnvironments, revision_id \in RevisionIds,
          summary \in SummaryAnswers, logs \in LogAnswers :
            GetBuildLogs(environment, revision_id, summary, logs)

SpecManager == InitManager /\ [][NextManager]_vars

(***************************************************************************)
(* A claim about the parser's failures (checked under SpecParse).          *)
(***************************************************************************)
\* The archive's recognized entries are Dockerfile entries only, and the
\* one that is parsed is a regular file.
OnlyDockerfileEntries ==
    /\ HasEntry(file_obj, Dockerfile)
    /\ \A i \in 1..Len(file_obj) :
          Basename(file_obj[i].name) = Dockerfile => file_obj[i].isreg
    /\ \A k \in DispatchNames \ {Dockerfile} : ~HasEntry(file_obj, k)

\* C15: for every content of a Dockerfile entry (a first line without the
\* prefix, fewer than five lines, no line at all), parse_revision_tar
\* returns a mapping that has the Dockerfile key; it does not raise.
C15_DockerfileNeverRaises ==
    (parsed.called /\ OnlyDockerfileEntries)
    => /\ ~parsed.raised
       /\ Dockerfile \in DOMAIN parsed.value

(***************************************************************************)
(* Claims about the operations (checked under SpecManager).                *)
(***************************************************************************)
OneRequestOps ==
    {"create_environment", "get_environment", "archive_environment",
     "create_revision", "get_revision_details", "get_build_status"}

\* The request of get_build_status: the page 0..500 of the environment's
\* revision summaries.
BoundedPage ==
    call.op = "get_build_status" /\ call.requests # <<>>
       => call.requests[1] = Get("revision_summaries",
                                 <<call.args.environment.id, 0, 500>>)

ActiveRevisionIdCached ==
    /\ default_environment.selectedRevision.type = "dict"
    /\ HasKey(default_environment.selectedRevision, IdKey)
BaseImageCached == Dockerfile \in DOMAIN default_details

\* The call has to look up a value it was not passed, where there is none.
LooksUpMissing ==
    CASE call.op \in {"create_environment", "create_revision"} ->
            \/ /\ ~Truthy(call.args.base_environment_revision_id)
               /\ ~ActiveRevisionIdCached
            \/ /\ ~Truthy(call.args.base_default_environment_image)
               /\ ~BaseImageCached
      [] call.op = "get_revision_details" ->
            /\ ~Truthy(call.args.revision_id)
            /\ call.args.environment.selectedRevision.type # "dict"
      [] call.op = "get_build_status" ->
            /\ ~Truthy(call.args.revision_id)
            /\ call.args.environment.latestRevision.type # "dict"
      [] OTHER -> FALSE

C13_WitnessNoRequest ==
    /\ call.op = "create_revision"
    /\ LooksUpMissing
    /\ call.requests = <<>>
    /\ call.raised /\ call.value = "KeyError"

\* The operations other than construction and refresh_defaults.
FrameOps ==
    {"get_default_environment", "get_environment", "archive_environment",
     "create_environment", "create_revision", "get_revision_details",
     "get_build_status", "get_build_logs"}

\* C14: a step that is a call of get_default_environment, get_environment,
\* archive_environment, create_environment, create_revision,
\* get_revision_details, get_build_status or get_build_logs leaves
\* _default_environment and _default_details as they were, whatever the
\* remote answered; only construction and refresh_defaults change them.
C14_CacheChangedOnlyByRefresh ==
    [][call'.op \in FrameOps => UNCHANGED cache_vars]_vars

\* A call of get_default_environment that was answered with an environment
\* other than the cached one.
C14_Witness ==
    /\ call.op = "get_default_environment"
    /\ ~call.raised
    /\ call.value = ChangedDefault
    /\ default_environment \in DefaultEnvironments
    /\ BaseImageCached

\* The request manager handed the call's one request a response.
GotResponse == Len(responses) = 1 /\ ~responses[1].raised

\* C16: whenever the request manager hands create_revision or
\* archive_environment a response, of any status, the call returns that
\* response and does not raise; whenever it hands create_environment a
\* response that is not ok (status 400 or more), the call raises; a
\* create_environment call that returns, returns a pair whose id is not None.
C16_FailedResponsesNotUniform ==
    /\ (call.op \in {"create_revision", "archive_environment"} /\ GotResponse)
          => ~call.raised /\ call.value = responses[1]
    /\ (/\ call.op = "create_environment"
        /\ GotResponse
        /\ responses[1].status_code >= 400)
          => call.raised /\ call.value = "HTTPError"
    /\ (call.op = "create_environment" /\ ~call.raised)
          => /\ call.value.response = responses[1]
             /\ call.value.env_id # PyNone

C16_Witness ==
    /\ call.op = "create_environment"
    /\ GotResponse
    /\ responses[1].status_code = 500
    /\ call.raised /\ call.value = "HTTPError"

C16_WitnessReturned ==
    /\ call.op = "archive_environment"
    /\ GotResponse
    /\ responses[1].status_code = 500
    /\ ~call.raised /\ call.value = responses[1]

\* A create_revision or create_environment call that built its payload.
BasePayloadBuilt ==
    /\ call.op \in {"create_revision", "create_environment"}
    /\ call.requests # <<>>

\* C17: the payload of create_revision and of create_environment carries
\* as base.baseEnvironmentRevisionId the argument when one is passed and not
\* empty, and the active-revision id in the cache otherwise, and as
\* base.defaultEnvironmentImage the argument when one is passed and not
\* empty, and the cached Dockerfile base image otherwise; the call issues
\* its POST only, no request for the default environment or its archive.
C17_BaseValuesFromArgumentsOrCache ==
    /\ call.op \in {"create_revision", "create_environment"}
          => ~FetchesDefaults(call.requests)
    /\ BasePayloadBuilt
          => /\ Len(call.requests) = 1 /\ call.requests[1].method = "POST"
             /\ call.requests[1].data["base.baseEnvironmentRevisionId"]
                   = IF Truthy(call.args.base_environment_revision_id)
                     THEN call.args.base_environment_revision_id
                     ELSE DictGet(default_environment.selectedRevision, IdKey)
             /\ call.requests[1].data["base.defaultEnvironmentImage"]
                   = IF Truthy(call.args.base_default_environment_image)
                     THEN call.args.base_default_environment_image
                     ELSE Text(default_details[Dockerfile].base_image)

\* Both values left to the cache, in a call that followed a refresh.
C17_Witness ==
    /\ call.op = "create_environment"
    /\ call.args.base_environment_revision_id = PyNone
    /\ call.args.base_default_environment_image = PyNone
    /\ BasePayloadBuilt
    /\ default_environment = ChangedDefault
    /\ call.requests[1].data["base.baseEnvironmentRevisionId"]
          = Text(<<"r", "1">>)
    /\ call.requests[1].data["base.defaultEnvironmentImage"]
          = Text(<<"p", "y", ":", "3">>)

C17_WitnessArguments ==
    /\ call.op = "create_revision"
    /\ BasePayloadBuilt
    /\ call.requests[1].data["base.baseEnvironmentRevisionId"]
          = Text(<<"r", "9">>)
    /\ call.requests[1].data["base.defaultEnvironmentImage"]
          = Text(<<"i">>)

\* The request manager handed create_environment an ok response.
CreatedOk ==
    /\ call.op = "create_environment"
    /\ GotResponse
    /\ responses[1].status_code < 400

\* C18: on an ok response create_environment takes what follows the last
\* "/" of the response's URL: when that is "environments" it raises
\* ValueError, and otherwise it returns the response paired with that
\* segment as the id, a string, never None.
C18_IdIsLastSegment ==
    CreatedOk =>
       LET segment == Basename(responses[1].url)
       IN  IF segment = ENVIRONMENTS
           THEN call.raised /\ call.value = "ValueError"
           ELSE /\ ~call.raised
                /\ call.value.response = responses[1]
                /\ call.value.env_id = Text(segment)
                /\ call.value.env_id # PyNone

C18_Witness ==
    /\ CreatedOk
    /\ responses[1].url = FormUrl \o <<"/", "e", "9">>
    /\ ~call.raised
    /\ call.value.env_id = Text(<<"e", "9">>)

C18_WitnessForm ==
    /\ CreatedOk
    /\ responses[1].url = FormUrl
    /\ call.raised /\ call.value = "ValueError"

C18_WitnessEmptyId ==
    /\ CreatedOk
    /\ ~call.raised
    /\ call.value.env_id = Text(<<>>)

====
